---- MODULE Spec2Model ----
(***************************************************************************)
(* Model of the reaction trainer page, src/src/app/page.tsx.               *)
(*                                                                         *)
(* Clock readings are integers counted in eighths of a millisecond (1 ms = *)
(* 8).  A reading of performance.now() or a frame time is a double; the    *)
(* doubles that are multiples of 1/8 ms hold fractional readings such as   *)
(* 1205.25 ms exactly and their differences are exact too, so that the     *)
(* integer arithmetic of the model is the arithmetic of the code on these  *)
(* readings, Math.round and Math.floor included.                           *)
(*                                                                         *)
(* React state variables hold the value written by the last setX call.     *)
(* What a handler closure sees is the value captured at the render whose   *)
(* effect bound it; that snapshot is kept in "handler" and "view" and is   *)
(* refreshed by the Render action.                                         *)
(***************************************************************************)
EXTENDS Integers, Sequences, FiniteSets, TLC

\* ------------------------------------------------------------------------
\* Bounds of the model
\* ------------------------------------------------------------------------

\* number of attempts recorded in one behaviour of the game specification
MaxAttempts == 2

\* number of attempts recorded in one behaviour of the ledger specification
MaxRecords == 11

\* one millisecond, in clock units
Ms == 8

\* readings of performance.now() at which events are handled: 100 ms,
\* 1099.875 ms, 1100 ms, 4100 ms, 5100 ms, 5100.375 ms, 5107.5 ms, 5108.5 ms,
\* 5305.25 ms and 9600 ms
Instants ==
  {800, 8799, 8800, 32800, 40800, 40803, 40860, 40868, 42442, 76800}

\* clock readings at which the calibration callbacks run
SampleInstants == {0, 9, 20, 32, 46, 64, 82, 400}

\* clock readings of the events handled while the page calibrates
MountInstants == {0, 12}

\* values of Math.random(), each a double written whole - below * 2^-53:
\* 0, and the largest values 1 - 2^-52 and 1 - 2^-53 of generators with 52
\* and with 53 random bits
RandomValues ==
  { [whole |-> 0, below |-> 0], [whole |-> 1, below |-> 2],
    [whole |-> 1, below |-> 1] }

\* compensation values left by calibration (ms)
Latencies == {8}

\* contents of localStorage "best" found at mount (<<>> is "no such key")
StoredTexts == { <<>>, << <<"0">> >> }

\* time from the last clock reading to the next animation frame, and to
\* the next reaction signal, in the specification of a round left to run
FrameGaps == {12000}
SignalGaps == {1642}

\* times (ms) of the attempts fed to the ledger specification
LedgerTimes == {0, 150}

\* contents of localStorage "best" found at mount by the startup
\* specification: no key, texts that are no number, and the number 100
\* written " 1e2"
StartupTexts ==
  { <<>>, << <<"x">> >>, << <<"1", "x">> >>, << <<"-">> >>,
    << <<" ", "1", "e", "2">> >> }

\* ------------------------------------------------------------------------
\* Values
\* ------------------------------------------------------------------------

\* `null` and a present value of an optional (number | null, Storage item)
Null == <<>>
Some(x) == <<x>>

Min(a, b) == IF a < b THEN a ELSE b
Max(a, b) == IF a > b THEN a ELSE b

\* 10^k for k in 0..9
Pow10(k) ==
  <<1, 10, 100, 1000, 10000, 100000, 1000000, 10000000, 100000000,
    1000000000>>[k + 1]

\* number of decimal digits of an integer 0 <= n < 10^9
NumDigits(n) == CHOOSE k \in 1..9 : n < Pow10(k) /\ (k = 1 \/ n >= Pow10(k - 1))

\* JavaScript numbers held by bestRef.  Num(n) is the integer n, of
\* magnitude below 10^9; Dec(m, e), with m not a multiple of 10, is the
\* double nearest to m * 10^e for a value that is no such integer
Num(n) == [k |-> "num", v |-> n]
Dec(m, e) == [k |-> "dec", m |-> m, e |-> e]
MinusZero == [k |-> "nzero", v |-> 0]
Infinity == [k |-> "inf", v |-> 0]
MinusInfinity == [k |-> "ninf", v |-> 0]
NaN == [k |-> "nan", v |-> 0]

\* ToBoolean of a number: +0, -0 and NaN are falsy
Truthy(x) ==
  x.k \in {"inf", "ninf", "dec", "max"} \/ (x.k = "num" /\ x.v # 0)

\* variant: a ?? b, which keeps every number, NaN and 0 included
OrNullish(a, b) == a

\* a || b on numbers
OrElse(a, b) == IF Truthy(a) THEN a ELSE b

\* the sign of a finite number
SignOf(x) ==
  CASE x.k = "num" -> (IF x.v > 0 THEN 1 ELSE IF x.v < 0 THEN 0 - 1 ELSE 0)
    [] x.k = "dec" -> (IF x.m > 0 THEN 1 ELSE 0 - 1)
    [] OTHER -> 0

\* the magnitude of a finite number that is not 0, as the power of ten
\* above it and its leading digits padded to nine
MagnitudeOf(x) ==
  LET m == IF x.k = "num" THEN (IF x.v < 0 THEN 0 - x.v ELSE x.v)
           ELSE (IF x.m < 0 THEN 0 - x.m ELSE x.m)
      e == IF x.k = "num" THEN 0 ELSE x.e
  IN [sci |-> NumDigits(m) + e, lead |-> m * Pow10(9 - NumDigits(m))]

\* whether the magnitude of x is below that of y
SmallerMagnitude(x, y) ==
  \/ MagnitudeOf(x).sci < MagnitudeOf(y).sci
  \/ /\ MagnitudeOf(x).sci = MagnitudeOf(y).sci
     /\ MagnitudeOf(x).lead < MagnitudeOf(y).lead

\* a < b on numbers (any comparison with NaN is false)
Less(a, b) ==
  CASE a.k = "nan" \/ b.k = "nan" -> FALSE
    [] a.k = "inf" \/ b.k = "ninf" -> FALSE
    [] a.k = "ninf" \/ b.k = "inf" -> TRUE
    [] SignOf(a) # SignOf(b) -> SignOf(a) < SignOf(b)
    [] SignOf(a) = 0 -> FALSE
    [] SignOf(a) = 1 -> SmallerMagnitude(a, b)
    [] OTHER -> SmallerMagnitude(b, a)

Digits == <<"0", "1", "2", "3", "4", "5", "6", "7", "8", "9">>

DigitValue(c) == (CHOOSE i \in 1..10 : Digits[i] = c) - 1

IsDigit(c) == \E i \in 1..10 : Digits[i] = c

RECURSIVE StringOf(_)
\* String(n) for an integer n, as a sequence of characters
StringOf(n) ==
  IF n < 0 THEN <<"-">> \o StringOf(0 - n)
  ELSE IF n < 10 THEN <<Digits[n + 1]>>
  ELSE Append(StringOf(n \div 10), Digits[(n % 10) + 1])

RECURSIVE DecimalValue(_)
DecimalValue(s) ==
  IF s = <<>> THEN 0
  ELSE 10 * DecimalValue(SubSeq(s, 1, Len(s) - 1)) + DigitValue(s[Len(s)])

\* the digits of the bases of the non-decimal literals, upper case and lower
HexDigits ==
  <<"0", "1", "2", "3", "4", "5", "6", "7", "8", "9", "a", "b", "c", "d",
    "e", "f">>
HexDigitsUpper ==
  <<"0", "1", "2", "3", "4", "5", "6", "7", "8", "9", "A", "B", "C", "D",
    "E", "F">>

IsRadixDigit(c, radix) ==
  \E i \in 1..radix : HexDigits[i] = c \/ HexDigitsUpper[i] = c

RadixDigitValue(c) ==
  (CHOOSE i \in 1..16 : HexDigits[i] = c \/ HexDigitsUpper[i] = c) - 1

RECURSIVE RadixValue(_, _)
RadixValue(s, radix) ==
  IF s = <<>> THEN 0
  ELSE radix * RadixValue(SubSeq(s, 1, Len(s) - 1), radix)
         + RadixDigitValue(s[Len(s)])

\* the white space and line terminators Number() strips (StrWhiteSpaceChar)
\* among the characters a text of the model can hold: space, tab, line feed,
\* carriage return, form feed, and the characters U+000B (vertical tab),
\* U+00A0 (no-break space), U+FEFF (byte order mark) and U+1680 (ogham
\* space mark), written here as themselves
WhiteSpace ==
  {" ", "\t", "\n", "\r", "\f", "", " ", "﻿", " "}

\* s without its leading and trailing white space
Trimmed(s) ==
  LET kept == {i \in 1..Len(s) : s[i] \notin WhiteSpace}
  IN IF kept = {} THEN <<>>
     ELSE SubSeq(s, CHOOSE i \in kept : \A j \in kept : i <= j,
                    CHOOSE i \in kept : \A j \in kept : i >= j)

\* digits without their leading zeros, and without their trailing zeros
WithoutLeadingZeros(d) ==
  LET kept == {i \in 1..Len(d) : d[i] # "0"}
  IN IF kept = {} THEN <<>>
     ELSE SubSeq(d, CHOOSE i \in kept : \A j \in kept : i <= j, Len(d))
WithoutTrailingZeros(d) ==
  LET kept == {i \in 1..Len(d) : d[i] # "0"}
  IN IF kept = {} THEN <<>>
     ELSE SubSeq(d, 1, CHOOSE i \in kept : \A j \in kept : i >= j)

\* the exponent written by the digits d, capped where every value is
\* already rounded to 0 or to Infinity
ExponentValue(d) ==
  IF Len(WithoutLeadingZeros(d)) > 4 THEN 99999
  ELSE DecimalValue(WithoutLeadingZeros(d))

\* the double nearest to (digits of whole and frac) * 10^(exp - Len(frac)),
\* negated if neg: beyond the largest double it is an infinity, below half
\* the smallest double it is a zero.  Defined for at most nine significant
\* digits.
DoubleOf(neg, whole, frac, exp) ==
  LET sig == WithoutLeadingZeros(whole \o frac)
      d == WithoutTrailingZeros(sig)
      e == exp - Len(frac) + (Len(sig) - Len(d))
      m == DecimalValue(d)
      sci == Len(d) + e - 1
      lead == m * Pow10(9 - Len(d))
  IN IF d = <<>> THEN (IF neg THEN MinusZero ELSE Num(0))
     ELSE IF sci > 308 \/ (sci = 308 /\ lead >= 179769314)
     THEN (IF neg THEN MinusInfinity ELSE Infinity)
     ELSE IF sci < 0 - 324 \/ (sci = 0 - 324 /\ lead < 247032823)
     THEN (IF neg THEN MinusZero ELSE Num(0))
     ELSE IF e >= 0 /\ Len(d) + e <= 9
     THEN Num((IF neg THEN 0 - m ELSE m) * Pow10(e))
     ELSE Dec(IF neg THEN 0 - m ELSE m, e)

\* StrUnsignedDecimalLiteral: digits with an optional fraction and an
\* optional exponent part, or Infinity; NaN if u is none of these
UnsignedDecimal(neg, u) ==
  LET marks == {i \in 1..Len(u) : u[i] \in {"e", "E"}}
      mark == IF marks = {} THEN Len(u) + 1
              ELSE CHOOSE i \in marks : \A j \in marks : i <= j
      mantissa == SubSeq(u, 1, mark - 1)
      expPart == SubSeq(u, mark + 1, Len(u))
      expNeg == expPart # <<>> /\ expPart[1] = "-"
      expDigits == IF expPart # <<>> /\ expPart[1] \in {"+", "-"}
                   THEN Tail(expPart) ELSE expPart
      dots == {i \in 1..Len(mantissa) : mantissa[i] = "."}
      dot == IF dots = {} THEN Len(mantissa) + 1
             ELSE CHOOSE i \in dots : \A j \in dots : i <= j
      whole == SubSeq(mantissa, 1, dot - 1)
      frac == SubSeq(mantissa, dot + 1, Len(mantissa))
      allDigits(d) == \A i \in 1..Len(d) : IsDigit(d[i])
  IN IF u = <<"I", "n", "f", "i", "n", "i", "t", "y">>
     THEN (IF neg THEN MinusInfinity ELSE Infinity)
     ELSE IF /\ allDigits(whole) /\ allDigits(frac)
             /\ Len(whole) + Len(frac) > 0
             /\ (marks = {} \/ (expDigits # <<>> /\ allDigits(expDigits)))
     THEN DoubleOf(neg, whole, frac,
                   IF marks = {} THEN 0
                   ELSE IF expNeg THEN 0 - ExponentValue(expDigits)
                   ELSE ExponentValue(expDigits))
     ELSE NaN

\* the base of a NonDecimalIntegerLiteral 0x.., 0o.., 0b.., or 0 if u is none
RadixOf(u) ==
  IF Len(u) < 3 \/ u[1] # "0" THEN 0
  ELSE CASE u[2] \in {"x", "X"} -> 16
         [] u[2] \in {"o", "O"} -> 8
         [] u[2] \in {"b", "B"} -> 2
         [] OTHER -> 0

\* Number(s) for a string s (StringToNumber): white space is trimmed, the
\* empty text is 0, a decimal literal may carry a sign, a fraction and an
\* exponent, a hexadecimal, octal or binary literal carries no sign, and
\* anything else is NaN.  Defined for literals of at most nine significant
\* digits and for non-decimal literals below 10^9.
NumberOf(s) ==
  LET t == Trimmed(s)
      signed == t # <<>> /\ t[1] \in {"+", "-"}
      u == IF signed THEN Tail(t) ELSE t
  IN IF t = <<>> THEN Num(0)
     ELSE IF ~signed /\ RadixOf(t) # 0
     THEN (IF \A i \in 3..Len(t) : IsRadixDigit(t[i], RadixOf(t))
           THEN Num(RadixValue(WithoutLeadingZeros(SubSeq(t, 3, Len(t))),
                               RadixOf(t)))
           ELSE NaN)
     ELSE UnsignedDecimal(signed /\ t[1] = "-", u)

\* Math.round of a value given in clock units: the nearest whole number of
\* milliseconds, halves going up
MathRound(x) == (2 * x + Ms) \div (2 * Ms)

\* ------------------------------------------------------------------------
\* State
\* ------------------------------------------------------------------------
VARIABLES
  gameState,        \* useState<GameState>
  activeLights,     \* useState(0)
  reactionTime,     \* useState<number | null>
  jumpStart,        \* useState(false)
  results,          \* useState<Result[]>, newest first
  systemLatency,    \* useState<number>, ms
  isCalibrating,    \* useState(true)
  rafRef,           \* handle of the last requested animation frame, or Null
  timeoutRef,       \* handle of the last lights-out timeout, or Null
  lightsStartRef,   \* performance.now() at startGame
  lightsOutTimeRef, \* performance.now() at lights out, 0 while unarmed
  runningRef,       \* the round-active flag
  bestRef,          \* in-memory best score
  storage,          \* localStorage item "best": Null or Some(characters)
  storageFull,      \* whether localStorage.setItem throws (quota exceeded)
  handler,          \* state captured by the bound pointer/key listeners
  view,             \* state shown by the last render
  frameLights,      \* activeLights captured by the running frame closure
  rafQueue,         \* handles of the pending animation frame callbacks
  timers,           \* pending timeouts: [id, due]
  nextRaf,          \* next handle requestAnimationFrame returns
  nextTimer,        \* next handle setTimeout returns
  now,              \* last reading of the clock
  frameStamp,       \* timestamp of the last animation frame run, -1 if none
  samples,          \* the samples array of the calibration effect
  sampleT0,         \* t0 of the pending calibration timeout, or Null
  best,             \* useState<number | null> of the variant with a best score
  intervals         \* active setInterval timers of the interval variant:
                    \* [id, count, due], count being the closure's lightCount

reactVars == <<gameState, activeLights, reactionTime, jumpStart, results,
               systemLatency, isCalibrating>>
refVars == <<rafRef, timeoutRef, lightsStartRef, lightsOutTimeRef,
             runningRef, bestRef>>
hostVars == <<storage, storageFull, rafQueue, timers, nextRaf, nextTimer,
              now, frameStamp>>
closureVars == <<handler, view, frameLights>>
calVars == <<samples, sampleT0>>
variantVars == <<best, intervals>>
vars == <<reactVars, refVars, hostVars, closureVars, calVars, variantVars>>

\* what a render captures for the listeners bound by the input effect
HandlerSnapshot ==
  [gameState |-> gameState, systemLatency |-> systemLatency,
   activeLights |-> activeLights]

\* what a render shows
ViewSnapshot ==
  [gameState |-> gameState, isCalibrating |-> isCalibrating,
   activeLights |-> activeLights]

\* the best-score effect run at mount
BestOnMount(item) ==
  IF item # Null /\ item[1] # <<>> THEN NumberOf(item[1]) ELSE Infinity

\* number of samples the calibration effect collects
SampleCount == 12

\* the page once calibration has finished and before any input, on a host
\* whose localStorage holds one of texts and throws on setItem if full; the
\* twelve samples were all equal to the compensation value
CalibratedPage(texts, full) ==
  /\ gameState = "idle"
  /\ activeLights = 0
  /\ reactionTime = Null
  /\ jumpStart = FALSE
  /\ results = <<>>
  /\ systemLatency \in Latencies
  /\ isCalibrating = FALSE
  /\ rafRef = Null
  /\ timeoutRef = Null
  /\ lightsStartRef = 0
  /\ lightsOutTimeRef = 0
  /\ runningRef = FALSE
  /\ storage \in texts
  /\ storageFull = full
  /\ bestRef = BestOnMount(storage)
  /\ handler = [gameState |-> "idle", systemLatency |-> systemLatency,
                activeLights |-> 0]
  /\ view = [gameState |-> "idle", isCalibrating |-> FALSE,
             activeLights |-> 0]
  /\ frameLights = 0
  /\ frameStamp = 0 - 1
  /\ rafQueue = {}
  /\ timers = {}
  /\ nextRaf = 1
  /\ nextTimer = 1
  /\ samples = [i \in 1..SampleCount |-> Ms * systemLatency]
  /\ sampleT0 = Null
  /\ best = Null
  /\ intervals = {}
  /\ now = SampleCount * Ms * systemLatency

Init == CalibratedPage(StoredTexts, FALSE)

\* ------------------------------------------------------------------------
\* Helpers of the page
\* ------------------------------------------------------------------------

\* length of the history kept by pushResult
HistoryCap == 10

\* variant: a jump start recorded as a timed attempt of 0 ms
AttemptAsTimed(time, isJump, stamp) ==
  [time |-> IF time = Null THEN Some(0) ELSE time, jumpStart |-> FALSE,
   timestamp |-> stamp]

\* a Result; timestamp is the reading of the wall clock at recording
Attempt(time, isJump, stamp) ==
  [time |-> time, jumpStart |-> isJump, timestamp |-> stamp]

\* variant: the history is never truncated
PushedResultsUncapped(prev, r) == <<r>> \o prev

\* [r, ...prev].slice(0, 10)
PushedResults(prev, r) ==
  SubSeq(<<r>> \o prev, 1, Min(HistoryCap, Len(prev) + 1))

\* the two nested conditions under which pushResult replaces the best
BestImproves(current, r) ==
  /\ ~r.jumpStart
  /\ r.time # Null
  /\ Less(Num(r.time[1]), OrElse(current, Infinity))

\* variant: the best is written to storage before it is kept in memory, so
\* a failed write loses it
pushResultWriteFirst(r) ==
  /\ results' = PushedResults(results, r)
  /\ IF BestImproves(bestRef, r) /\ ~storageFull
     THEN /\ bestRef' = Num(r.time[1])
          /\ storage' = Some(StringOf(r.time[1]))
     ELSE UNCHANGED <<bestRef, storage>>

\* pushResult; when localStorage.setItem throws, the exception leaves
\* pushResult and handleReaction at their last statement
pushResult(r) ==
  /\ results' = PushedResults(results, r)
  /\ IF BestImproves(bestRef, r)
     THEN /\ bestRef' = Num(r.time[1])
          /\ storage' = IF storageFull THEN storage
                         ELSE Some(StringOf(r.time[1]))
     ELSE UNCHANGED <<bestRef, storage>>

\* variant: the number of lights is not capped at 5
ToLightUncapped(elapsed) == (elapsed \div (1000 * Ms)) + 1

\* variant: a counter incremented by one at each tick
ToLightCounted(elapsed) == Min(5, activeLights + 1)

\* variant: the light index wraps around after the fifth second
ToLightWrapping(elapsed) == ((elapsed \div (1000 * Ms)) % 5) + 1

\* Math.min(5, Math.floor(elapsed / 1000) + 1), elapsed in clock units
ToLight(elapsed) == Min(5, (elapsed \div (1000 * Ms)) + 1)

\* the double whole - below * 2^-53, for a small count below >= 0
Dbl(whole, below) == [whole |-> whole, below |-> below]

\* n >= 0 rounded to the nearest multiple of step, a tie going to the even
\* multiple: the rounding of a double operation (IEEE 754 nearest-even)
RoundTiesEven(n, step) ==
  LET q == n \div step
      r == n % step
  IN step * (IF 2 * r < step THEN q
             ELSE IF 2 * r > step THEN q + 1
             ELSE IF q % 2 = 0 THEN q ELSE q + 1)

\* Math.random() * 4000 for rnd = 0 or rnd just below 1; the doubles of
\* [2048, 4096) are 2^-41 = 4096 * 2^-53 apart
RandomTimes4000(rnd) ==
  IF rnd.whole = 0 THEN Dbl(0, 0)
  ELSE Dbl(4000, RoundTiesEven(4000 * rnd.below, 4096))

\* delay = 1000 + Math.random() * 4000; the doubles of [4096, 8192) are
\* 2^-40 = 8192 * 2^-53 apart
LightsOutDelay(rnd) ==
  IF RandomTimes4000(rnd).whole = 0 THEN Dbl(1000, 0)
  ELSE Dbl(1000 + RandomTimes4000(rnd).whole,
           RoundTiesEven(RandomTimes4000(rnd).below, 8192))

\* the timeout argument of setTimeout is converted to an integer number of
\* milliseconds by dropping its fraction
TimeoutMs(delay) == IF delay.below > 0 THEN delay.whole - 1 ELSE delay.whole

\* variant: the result of Math.round is not clamped at 0
CalibratedUnclamped(raw, latency) == MathRound(raw - Ms * latency)

\* variant: Math.floor in place of Math.round
CalibratedFloor(raw, latency) == Max(0, (raw - Ms * latency) \div Ms)

\* Math.max(0, Math.round(raw - systemLatency)); raw in clock units, latency in ms
Calibrated(raw, latency) == Max(0, MathRound(raw - Ms * latency))

\* variant: the pending animation frame is left in place
RafNotCancelled == rafQueue

\* cancelAnimationFrame(rafRef.current), guarded by if (rafRef.current)
RafAfterCancel == IF rafRef # Null THEN rafQueue \ {rafRef[1]} ELSE rafQueue

\* variant: the frame that lights the fifth light requests another frame
QueueStillTicking(id) == (rafQueue \ {id}) \cup {nextRaf}

\* the pending frames once the frame that lights the fifth light has run:
\* the else branch of `if (toLight < 5)` requests no frame
QueueAfterLastFrame(id) == rafQueue \ {id}

\* variant: the lights-out timeout is left pending
TimersNotCleared == timers

\* variant: a frame that has lights left to light requests no further frame
QueueNotRenewed(id) == rafQueue \ {id}

\* the pending frames once a frame that has lights left to light has run:
\* rafRef.current = requestAnimationFrame(frame)
QueueAfterFrame(id) == (rafQueue \ {id}) \cup {nextRaf}

\* clearTimeout(timeoutRef.current), guarded by if (timeoutRef.current)
TimersAfterClear ==
  IF timeoutRef # Null THEN {tm \in timers : tm.id # timeoutRef[1]}
  ELSE timers

\* variant: the lights-out callback repeats, as one set by setInterval
TimersRepeating(tm) == timers

\* the pending timeouts once the lights-out timeout tm has fired: a timeout
\* set by setTimeout runs once
TimersAfterFiring(tm) == timers \ {tm}

\* variant: the round-active flag is left as it is
RunningLeftSet == runningRef

\* runningRef.current = false
RunningAfterStop == FALSE

stopRunningClean ==
  /\ runningRef' = RunningAfterStop
  /\ rafQueue' = RafAfterCancel
  /\ timers' = TimersAfterClear
  /\ rafRef' = Null
  /\ timeoutRef' = Null

\* variant: startGame without its guard
StartNeverIgnored == FALSE

\* variant: startGame guarded by the rendered state instead of the flag
StartIgnoredByView == view.gameState \notin {"idle", "result"}

\* the early return of startGame
StartIgnored == runningRef

\* variant: the reaction time of the round before is kept
ReactionTimeKept == reactionTime

\* setReactionTime(null)
ReactionTimeAtStart == Null

\* variant: the jump-start flag of the round before is kept
JumpStartKept == jumpStart

\* setJumpStart(false)
JumpStartAtStart == FALSE

\* variant: the lights-out instant of the round before is kept
LightsOutKept == lightsOutTimeRef

\* lightsOutTimeRef.current = 0
LightsOutAtStart == 0

\* startGame called at clock reading t from a closure that captured
\* activeLights = lights
startGame(t, lights) ==
  IF StartIgnored
  THEN UNCHANGED <<reactVars, refVars, storage, storageFull, rafQueue,
                   timers, nextRaf, nextTimer, frameLights>>
  ELSE /\ runningRef' = TRUE
       /\ reactionTime' = ReactionTimeAtStart
       /\ jumpStart' = JumpStartAtStart
       /\ lightsOutTimeRef' = LightsOutAtStart
       /\ activeLights' = 0
       /\ gameState' = "countdown"
       /\ lightsStartRef' = t
       /\ frameLights' = lights
       /\ rafRef' = Some(nextRaf)
       /\ rafQueue' = rafQueue \cup {nextRaf}
       /\ nextRaf' = nextRaf + 1
       /\ UNCHANGED <<results, systemLatency, isCalibrating, timeoutRef,
                      bestRef, storage, storageFull, timers, nextTimer>>

\* variant: the jump start decided from the gameState the handler captured
IsJumpStartByState == handler.gameState \in {"countdown", "waiting"}

\* variant: anything short of a captured "reacting" counts as a jump start
IsJumpStartStale == handler.gameState # "reacting"

\* which branch handleReaction takes
StartsRound == ~runningRef /\ handler.gameState \in {"idle", "result"}
IsJumpStart == lightsOutTimeRef = 0

\* ------------------------------------------------------------------------
\* Operations
\* ------------------------------------------------------------------------

\* a render followed by its effects: the input effect rebinds the listeners
\* only when one of its dependencies [gameState, systemLatency] changed
Render ==
  /\ view # ViewSnapshot \/ handler.gameState # gameState
       \/ handler.systemLatency # systemLatency
  /\ view' = ViewSnapshot
  /\ handler' = IF handler.gameState # gameState
                     \/ handler.systemLatency # systemLatency
                THEN HandlerSnapshot ELSE handler
  /\ UNCHANGED <<reactVars, refVars, hostVars, frameLights, calVars,
                 variantVars>>

\* pointer-down or space key: handleReaction run at clock reading t
ReactionSignal(t) ==
  /\ UNCHANGED frameStamp
  /\ t >= now
  /\ now' = t
  /\ UNCHANGED <<handler, view, calVars, variantVars>>
  /\ IF StartsRound
     THEN startGame(t, handler.activeLights)
     ELSE /\ Len(results) < MaxAttempts
          /\ stopRunningClean
          /\ gameState' = "result"
          /\ IF IsJumpStart
             THEN /\ jumpStart' = TRUE
                  /\ activeLights' = 0
                  /\ pushResult(Attempt(Null, TRUE, t))
                  /\ UNCHANGED reactionTime
             ELSE /\ reactionTime' =
                       Some(Calibrated(t - lightsOutTimeRef,
                                       handler.systemLatency))
                  /\ pushResult(Attempt(
                       Some(Calibrated(t - lightsOutTimeRef,
                                       handler.systemLatency)), FALSE, t))
                  /\ UNCHANGED <<jumpStart, activeLights>>
          /\ UNCHANGED <<systemLatency, isCalibrating, lightsStartRef,
                         lightsOutTimeRef, nextRaf, nextTimer, frameLights,
                         storageFull>>

\* click on the Try Again button, which is rendered in the result panel
TryAgain(t) ==
  /\ UNCHANGED frameStamp
  /\ view.gameState = "result"
  /\ ~view.isCalibrating
  /\ t >= now
  /\ now' = t
  /\ UNCHANGED <<handler, view, calVars, variantVars>>
  /\ startGame(t, view.activeLights)

\* the longest time by which the timestamp of a frame precedes a clock
\* reading taken before its callback runs: one frame of a 60 Hz display,
\* rounded up to 17 ms
FrameLead == 17 * Ms

\* the host runs an animation frame callback with timestamp t: the time at
\* which the frame began, later than that of the frame before and at most
\* FrameLead before the last clock reading (it can lie before the
\* performance.now() that startGame read in the same frame)
FrameStamped(t) ==
  /\ t > frameStamp
  /\ t >= now - FrameLead
  /\ now' = Max(now, t)
  /\ frameStamp' = t

\* the animation frame callback `frame`, run with frame time t; setTimeout
\* counts the delay from the call, made when the clock reads Max(now, t),
\* not from the frame time
FrameTick(id, t) ==
  /\ id \in rafQueue
  /\ FrameStamped(t)
  /\ activeLights' = IF ToLight(t - lightsStartRef) # frameLights
                     THEN ToLight(t - lightsStartRef) ELSE activeLights
  /\ IF ToLight(t - lightsStartRef) < 5
     THEN /\ rafRef' = Some(nextRaf)
          /\ rafQueue' = QueueAfterFrame(id)
          /\ nextRaf' = nextRaf + 1
          /\ UNCHANGED <<gameState, timeoutRef, timers, nextTimer>>
     ELSE /\ gameState' = "waiting"
          /\ \E rnd \in RandomValues :
               timers' = timers \cup
                 {[id |-> nextTimer,
                   due |-> Max(now, t) + Ms * TimeoutMs(LightsOutDelay(rnd))]}
          /\ timeoutRef' = Some(nextTimer)
          /\ nextTimer' = nextTimer + 1
          /\ rafQueue' = QueueAfterLastFrame(id)
          /\ UNCHANGED <<rafRef, nextRaf>>
  /\ UNCHANGED <<reactionTime, jumpStart, results, systemLatency,
                 isCalibrating, lightsStartRef, lightsOutTimeRef, runningRef,
                 bestRef, storage, storageFull, closureVars, calVars,
                 variantVars>>

\* the lights-out timeout callback, run at clock reading t
LightsOut(tm, t) ==
  /\ UNCHANGED frameStamp
  /\ tm \in timers
  /\ t >= now
  /\ t >= tm.due
  /\ now' = t
  /\ timers' = TimersAfterFiring(tm)
  /\ lightsOutTimeRef' = t
  /\ activeLights' = 0
  /\ gameState' = "reacting"
  /\ UNCHANGED <<reactionTime, jumpStart, results, systemLatency,
                 isCalibrating, rafRef, timeoutRef, lightsStartRef,
                 runningRef, bestRef, storage, storageFull, rafQueue, nextRaf,
                 nextTimer, closureVars, calVars, variantVars>>

Next ==
  \/ Render
  \/ \E t \in Instants : ReactionSignal(t)
  \/ \E t \in Instants : TryAgain(t)
  \/ \E t \in Instants : \E id \in rafQueue : FrameTick(id, t)
  \/ \E t \in Instants : \E tm \in timers : LightsOut(tm, t)

Spec == Init /\ [][Next]_vars

TypeOK ==
  /\ gameState \in {"idle", "countdown", "waiting", "reacting", "result"}
  /\ activeLights \in 0..5
  /\ runningRef \in BOOLEAN
  /\ Len(results) <= HistoryCap

\* variant: jump starts are kept and count as 0 ms
ValidTimesUnfiltered(rs) ==
  [i \in 1..Len(rs) |-> IF rs[i].time = Null THEN 0 ELSE rs[i].time[1]]

\* results.filter(r => !r.jumpStart && r.time !== null).map(r => r.time)
ValidTimes(rs) ==
  LET kept == SelectSeq(rs, LAMBDA r : ~r.jumpStart /\ r.time # Null)
  IN [i \in 1..Len(kept) |-> kept[i].time[1]]

RECURSIVE SumOf(_)
\* validTimes.reduce((a, b) => a + b, 0)
SumOf(ts) == IF ts = <<>> THEN 0 ELSE ts[1] + SumOf(Tail(ts))

\* Math.round(sum / n) for integers sum >= 0 and n > 0
RoundedQuotient(sum, n) == (2 * sum + n) \div (2 * n)

\* averageTime: the rounded mean of the valid times, NaN when there is none
AverageTime(rs) ==
  IF Len(ValidTimes(rs)) # 0
  THEN Num(RoundedQuotient(SumOf(ValidTimes(rs)), Len(ValidTimes(rs))))
  ELSE NaN

\* the average shown by the history panel: Some(ms), or Null when the
\* panel leaves the average out
AverageShown(rs) ==
  IF Len(rs) > 0 /\ AverageTime(rs).k # "nan" /\ AverageTime(rs).v > 0
  THEN Some(AverageTime(rs).v)
  ELSE Null

\* ------------------------------------------------------------------------
\* The ledger on its own: pushResult applied to a sequence of attempts
\* ------------------------------------------------------------------------

\* number of attempts recorded so far (stamps count the records)
RecordsSoFar == IF results = <<>> THEN 0 ELSE results[1].timestamp

\* the attempts handleReaction can hand to pushResult
LedgerAttempts(stamp) ==
  {Attempt(Null, TRUE, stamp)}
    \cup {Attempt(Some(ms), FALSE, stamp) : ms \in LedgerTimes}

LedgerRecord(r) ==
  /\ UNCHANGED frameStamp
  /\ RecordsSoFar < MaxRecords
  /\ pushResult(r)
  /\ UNCHANGED <<gameState, activeLights, reactionTime, jumpStart,
                 systemLatency, isCalibrating, rafRef, timeoutRef,
                 lightsStartRef, lightsOutTimeRef, runningRef, rafQueue,
                 timers, nextRaf, nextTimer, now, storageFull, closureVars,
                 calVars, variantVars>>

NextLedger == \E r \in LedgerAttempts(RecordsSoFar + 1) : LedgerRecord(r)

SpecLedger == Init /\ [][NextLedger]_vars

\* the ledger on a page that found any of the startup texts in storage
InitStartup == CalibratedPage(StartupTexts, FALSE)

SpecStartup == InitStartup /\ [][NextLedger]_vars

\* the game on a host whose storage refuses every write
InitStorageFull == CalibratedPage(StoredTexts, TRUE)

SpecStorageFull == InitStorageFull /\ [][Next]_vars

\* ------------------------------------------------------------------------
\* A round left to run: every frame and timeout the page requested is run
\* by the host, the clock advancing by a gap at each event
\* ------------------------------------------------------------------------

RoundSignal == \E d \in SignalGaps : ReactionSignal(now + d)
RoundFrame ==
  \E d \in FrameGaps : \E id \in rafQueue : FrameTick(id, now + d)
RoundLightsOut == \E tm \in timers : LightsOut(tm, Max(now, tm.due))

NextRound ==
  \/ Render
  \/ RoundSignal
  \/ RoundFrame
  \/ RoundLightsOut

SpecRoundFair ==
  /\ Init
  /\ [][NextRound]_vars
  /\ WF_vars(RoundFrame)
  /\ WF_vars(RoundLightsOut)

\* ------------------------------------------------------------------------
\* Calibration: the effect that samples setTimeout(0) round trips
\* ------------------------------------------------------------------------

\* samples.sort((a, b) => a - b): the samples in ascending order, the k-th
\* being the value with fewer than k samples below it and at least k samples
\* not above it
SortedSamples(s) ==
  [k \in 1..Len(s) |->
     CHOOSE m \in {s[i] : i \in 1..Len(s)} :
       /\ Cardinality({i \in 1..Len(s) : s[i] < m}) < k
       /\ Cardinality({i \in 1..Len(s) : s[i] <= m}) >= k]

\* Math.floor(samples.length / 2), as a position counted from 1
MedianIndex(n) == (n \div 2) + 1

\* variant: the mean of the samples in place of their median
MeanOf(sorted) == SumOf(sorted) \div Len(sorted)

\* samples[Math.floor(samples.length / 2)] of the sorted array
MedianOf(sorted) == sorted[MedianIndex(Len(sorted))]

\* variant: a fixed buffer of 2 ms added to the median
LatencyWithBuffer(median) == Max(0, MathRound(median)) + 2

\* Math.max(0, Math.round(median)), median in clock units
LatencyFrom(median) == Max(0, MathRound(median))

\* variant: the median is computed as soon as the first sample is in
MoreSamplesNever(count) == FALSE

\* `if (count < 12) sampleOnce()`: whether another sample is taken
MoreSamples(count) == count < SampleCount

\* the page right after mount: the effects have run, the first calibration
\* timeout is pending and the listeners are bound
InitMount ==
  /\ gameState = "idle"
  /\ activeLights = 0
  /\ reactionTime = Null
  /\ jumpStart = FALSE
  /\ results = <<>>
  /\ systemLatency = 0
  /\ isCalibrating = TRUE
  /\ rafRef = Null
  /\ timeoutRef = Null
  /\ lightsStartRef = 0
  /\ lightsOutTimeRef = 0
  /\ runningRef = FALSE
  /\ storage \in StoredTexts
  /\ storageFull = FALSE
  /\ bestRef = BestOnMount(storage)
  /\ handler = [gameState |-> "idle", systemLatency |-> 0,
                activeLights |-> 0]
  /\ view = [gameState |-> "idle", isCalibrating |-> TRUE,
             activeLights |-> 0]
  /\ frameLights = 0
  /\ frameStamp = 0 - 1
  /\ rafQueue = {}
  /\ timers = {}
  /\ nextRaf = 1
  /\ nextTimer = 1
  /\ samples = <<>>
  /\ sampleT0 = Some(0)
  /\ best = Null
  /\ intervals = {}
  /\ now = 0

\* the callback of the calibration timeout, run at clock reading t; the
\* handle of that timeout is discarded by the code and is not modelled
SampleCallback(t) ==
  /\ UNCHANGED frameStamp
  /\ sampleT0 # Null
  /\ t >= now
  /\ now' = t
  /\ IF MoreSamples(Len(samples) + 1)
     THEN /\ samples' = Append(samples, t - sampleT0[1])
          /\ sampleT0' = Some(t)
          /\ UNCHANGED <<systemLatency, isCalibrating>>
     ELSE /\ samples' = SortedSamples(Append(samples, t - sampleT0[1]))
          /\ systemLatency' = LatencyFrom(MedianOf(samples'))
          /\ isCalibrating' = FALSE
          /\ sampleT0' = Null
  /\ UNCHANGED <<gameState, activeLights, reactionTime, jumpStart, results,
                 refVars, storage, storageFull, rafQueue, timers, nextRaf,
                 nextTimer, closureVars, variantVars>>

\* the host never runs the pending calibration timeout
HostDropsSample ==
  /\ sampleT0 # Null
  /\ sampleT0' = Null
  /\ UNCHANGED <<reactVars, refVars, hostVars, closureVars, samples,
                 variantVars>>

\* calibration alone, every timeout run
NextCalibration ==
  \/ \E t \in SampleInstants : SampleCallback(t)
  \/ Render

SpecCalibration == InitMount /\ [][NextCalibration]_vars

\* the same, on a host that runs every timeout it was given
SpecCalibrationFair ==
  SpecCalibration /\ WF_vars(\E t \in SampleInstants : SampleCallback(t))

\* calibration on a host that may refuse to run a timeout
NextHost ==
  \/ \E t \in SampleInstants : SampleCallback(t)
  \/ HostDropsSample

SpecHost == InitMount /\ [][NextHost]_vars /\ WF_vars(NextHost)

\* the first moments of the page: calibration together with input, renders
\* and animation frames
NextMount ==
  \/ \E t \in MountInstants : SampleCallback(t)
  \/ \E t \in MountInstants : ReactionSignal(t)
  \/ \E t \in MountInstants : TryAgain(t)
  \/ \E t \in MountInstants : \E id \in rafQueue : FrameTick(id, t)
  \/ Render

SpecMount == InitMount /\ [][NextMount]_vars

\* ------------------------------------------------------------------------
\* The frame-driven variant with a best score, src/unnamed/part_000 lines
\* 1028-1157.  gameActiveRef is held in runningRef; lightsStartRef and
\* frameLights hold `start` and `lightsOn` of the running animateLights
\* closure; the handle of the lights-out timeout is not kept by the code.
\* ------------------------------------------------------------------------

\* Number.MAX_SAFE_INTEGER, 2^53 - 1, the first value of bestRef
MaxSafeInteger == [k |-> "max", v |-> 0]

\* calibrated < bestRef.current, every time of the model being below 2^53 - 1
BelowBest(ms, current) ==
  IF current.k = "max" THEN TRUE ELSE Less(Num(ms), current)

\* [newResult, ...prev.slice(0, 9)]
RecordedResults(prev, r) == <<r>> \o SubSeq(prev, 1, Min(9, Len(prev)))

\* the variant after its calibration (median 6 ms plus 2) and its best-score
\* effect, before any input; the listeners were bound at mount, when
\* systemLatency was 0, and the input effect (dependencies [gameState]) has
\* not rebound them since
InitBest ==
  /\ gameState = "idle"
  /\ activeLights = 0
  /\ reactionTime = Null
  /\ jumpStart = FALSE
  /\ results = <<>>
  /\ systemLatency \in Latencies
  /\ isCalibrating = FALSE
  /\ rafRef = Null
  /\ timeoutRef = Null
  /\ lightsStartRef = 0
  /\ lightsOutTimeRef = 0
  /\ runningRef = FALSE
  /\ storage \in StoredTexts
  /\ storageFull = FALSE
  /\ bestRef = IF storage # Null /\ storage[1] # <<>>
               THEN NumberOf(storage[1]) ELSE MaxSafeInteger
  /\ best = IF storage # Null /\ storage[1] # <<>>
            THEN Some(NumberOf(storage[1])) ELSE Null
  /\ handler = [gameState |-> "idle", systemLatency |-> 0,
                activeLights |-> 0]
  /\ view = [gameState |-> "idle", isCalibrating |-> FALSE,
             activeLights |-> 0]
  /\ frameLights = 0
  /\ frameStamp = 0 - 1
  /\ rafQueue = {}
  /\ timers = {}
  /\ nextRaf = 1
  /\ nextTimer = 1
  /\ samples = <<>>
  /\ sampleT0 = Null
  /\ intervals = {}
  /\ now = 100 * Ms

\* startGame of the variant, called at clock reading t
BestStartGame(t) ==
  IF runningRef
  THEN UNCHANGED <<reactVars, refVars, rafQueue, nextRaf, frameLights>>
  ELSE /\ runningRef' = TRUE
       /\ activeLights' = 0
       /\ reactionTime' = Null
       /\ jumpStart' = FALSE
       /\ gameState' = "countdown"
       /\ frameLights' = 0
       /\ lightsStartRef' = t
       /\ rafRef' = Some(nextRaf)
       /\ rafQueue' = rafQueue \cup {nextRaf}
       /\ nextRaf' = nextRaf + 1
       /\ UNCHANGED <<results, systemLatency, isCalibrating, timeoutRef,
                      lightsOutTimeRef, bestRef>>

\* Math.floor((now - start) / 1000) + 1
ShouldBeOn(elapsed) == (elapsed \div (1000 * Ms)) + 1

\* lightsOn after the tick
LightsOnAfter(shouldBeOn, lightsOn) ==
  IF shouldBeOn > lightsOn /\ shouldBeOn <= 5 THEN shouldBeOn ELSE lightsOn

\* the animation frame callback animateLights, run with frame time t; the
\* delay of setTimeout counts from the call, when the clock reads Max(now, t)
animateLights(id, t) ==
  /\ id \in rafQueue
  /\ FrameStamped(t)
  /\ frameLights' = LightsOnAfter(ShouldBeOn(t - lightsStartRef), frameLights)
  /\ activeLights' = IF frameLights' # frameLights THEN frameLights'
                     ELSE activeLights
  /\ IF frameLights' < 5
     THEN /\ rafRef' = Some(nextRaf)
          /\ rafQueue' = (rafQueue \ {id}) \cup {nextRaf}
          /\ nextRaf' = nextRaf + 1
          /\ UNCHANGED <<timers, nextTimer>>
     ELSE /\ \E rnd \in RandomValues :
               timers' = timers \cup
                 {[id |-> nextTimer,
                   due |-> Max(now, t) + Ms * TimeoutMs(LightsOutDelay(rnd))]}
          /\ nextTimer' = nextTimer + 1
          /\ rafQueue' = rafQueue \ {id}
          /\ UNCHANGED <<rafRef, nextRaf>>
  /\ UNCHANGED <<gameState, reactionTime, jumpStart, results, systemLatency,
                 isCalibrating, timeoutRef, lightsStartRef, lightsOutTimeRef,
                 runningRef, bestRef, storage, storageFull, handler, view,
                 calVars, variantVars>>

\* the lights-out timeout callback of the variant, run at clock reading t
BestLightsOut(tm, t) ==
  /\ UNCHANGED frameStamp
  /\ tm \in timers
  /\ t >= now
  /\ t >= tm.due
  /\ now' = t
  /\ timers' = timers \ {tm}
  /\ activeLights' = 0
  /\ lightsOutTimeRef' = t
  /\ gameState' = "reacting"
  /\ UNCHANGED <<reactionTime, jumpStart, results, systemLatency,
                 isCalibrating, rafRef, timeoutRef, lightsStartRef,
                 runningRef, bestRef, storage, storageFull, rafQueue, nextRaf,
                 nextTimer, closureVars, calVars, variantVars>>

\* handleReaction of the variant, called by a listener that captured
\* countdown, waiting or reacting
BestHandleReaction(t) ==
  /\ Len(results) < MaxAttempts
  /\ rafQueue' = IF rafRef # Null THEN rafQueue \ {rafRef[1]} ELSE rafQueue
  /\ runningRef' = FALSE
  /\ gameState' = "result"
  /\ IF handler.gameState \in {"countdown", "waiting"}
     THEN /\ jumpStart' = TRUE
          /\ results' = RecordedResults(results, Attempt(Null, TRUE, t))
          /\ UNCHANGED <<reactionTime, bestRef, best, storage>>
     ELSE /\ reactionTime' =
               Some(Calibrated(t - lightsOutTimeRef, handler.systemLatency))
          /\ results' = RecordedResults(results,
               Attempt(reactionTime', FALSE, t))
          /\ UNCHANGED jumpStart
          /\ IF BelowBest(reactionTime'[1], bestRef)
             THEN /\ bestRef' = Num(reactionTime'[1])
                  /\ best' = reactionTime'
                  /\ storage' = IF storageFull THEN storage
                                 ELSE Some(StringOf(reactionTime'[1]))
             ELSE UNCHANGED <<bestRef, best, storage>>
  /\ UNCHANGED <<activeLights, systemLatency, isCalibrating, rafRef,
                 timeoutRef, lightsStartRef, lightsOutTimeRef, nextRaf,
                 frameLights>>

\* the keydown (space) and mousedown listener bound by the input effect
BestListener(t) ==
  /\ UNCHANGED frameStamp
  /\ t >= now
  /\ now' = t
  /\ IF handler.gameState \in {"idle", "result"}
     THEN BestStartGame(t) /\ UNCHANGED <<storage, best>>
     ELSE BestHandleReaction(t)
  /\ UNCHANGED <<storageFull, timers, nextTimer, handler, view, calVars,
                 intervals>>

\* click on the Try Again button of the result panel
BestTryAgain(t) ==
  /\ UNCHANGED frameStamp
  /\ view.gameState = "result"
  /\ ~view.isCalibrating
  /\ t >= now
  /\ now' = t
  /\ BestStartGame(t)
  /\ UNCHANGED <<storage, storageFull, timers, nextTimer, handler, view,
                 calVars, variantVars>>

\* a render followed by its effects: the input effect, whose dependencies
\* are [gameState], rebinds the listener
BestRender ==
  /\ view # ViewSnapshot \/ handler.gameState # gameState
  /\ view' = ViewSnapshot
  /\ handler' = IF handler.gameState # gameState THEN HandlerSnapshot
                ELSE handler
  /\ UNCHANGED <<reactVars, refVars, hostVars, frameLights, calVars,
                 variantVars>>

NextBest ==
  \/ BestRender
  \/ \E t \in Instants : BestTryAgain(t)
  \/ \E t \in Instants : BestListener(t)
  \/ \E t \in Instants : \E id \in rafQueue : animateLights(id, t)
  \/ \E t \in Instants : \E tm \in timers : BestLightsOut(tm, t)

SpecBest == InitBest /\ [][NextBest]_vars

\* ---------------------------------------------------------------------
\* The interval-timer variant (src/unnamed/part_000, lines 41-162): the
\* lights are lit by setInterval, lightsOffTimeRef is lightsOutTimeRef and
\* gameActiveRef is runningRef of the model
\* ---------------------------------------------------------------------

\* the period of the light interval, 1000 ms
IntervalPeriod == 1000 * Ms

\* clock readings of the inputs of the variant: the page is ready at 100 ms;
\* 1099.875 ms is just before the first light of a round begun at 100 ms and
\* 9600 ms is after its lights went out
IntervalInstants == {800, 8799, 76800}

\* the variant after its calibration (median 0 ms plus 8), before any input;
\* the listeners were bound at mount, when systemLatency was 0, and the input
\* effect (dependencies [gameState]) has not rebound them since
InitInterval ==
  /\ gameState = "idle"
  /\ activeLights = 0
  /\ reactionTime = Null
  /\ jumpStart = FALSE
  /\ results = <<>>
  /\ systemLatency \in Latencies
  /\ isCalibrating = FALSE
  /\ rafRef = Null
  /\ timeoutRef = Null
  /\ lightsStartRef = 0
  /\ lightsOutTimeRef = 0
  /\ runningRef = FALSE
  /\ storage = Null
  /\ storageFull = FALSE
  /\ bestRef = Infinity
  /\ best = Null
  /\ handler = [gameState |-> "idle", systemLatency |-> 0,
                activeLights |-> 0]
  /\ view = [gameState |-> "idle", isCalibrating |-> FALSE,
             activeLights |-> 0]
  /\ frameLights = 0
  /\ frameStamp = 0 - 1
  /\ rafQueue = {}
  /\ timers = {}
  /\ nextRaf = 1
  /\ nextTimer = 1
  /\ samples = <<>>
  /\ sampleT0 = Null
  /\ intervals = {}
  /\ now = 100 * Ms

\* startGame of the variant, called at clock reading t: its interval counts
\* the lights in its own lightCount
IntervalStartGame(t) ==
  IF runningRef
  THEN UNCHANGED <<reactVars, runningRef, lightsOutTimeRef, intervals,
                   nextTimer>>
  ELSE /\ runningRef' = TRUE
       /\ gameState' = "countdown"
       /\ activeLights' = 0
       /\ reactionTime' = Null
       /\ jumpStart' = FALSE
       /\ intervals' = intervals \cup
            {[id |-> nextTimer, lightCount |-> 0, due |-> t + IntervalPeriod]}
       /\ nextTimer' = nextTimer + 1
       /\ UNCHANGED <<results, systemLatency, isCalibrating,
                      lightsOutTimeRef>>

\* the callback of the light interval iv, run at clock reading t
IntervalTick(iv, t) ==
  /\ UNCHANGED frameStamp
  /\ iv \in intervals
  /\ t >= now
  /\ t >= iv.due
  /\ now' = t
  /\ activeLights' = iv.lightCount + 1
  /\ IF iv.lightCount + 1 = 5
     THEN /\ intervals' = intervals \ {iv}
          /\ gameState' = "waiting"
          /\ \E rnd \in RandomValues :
               timers' = timers \cup
                 {[id |-> nextTimer,
                   due |-> t + Ms * TimeoutMs(LightsOutDelay(rnd))]}
          /\ nextTimer' = nextTimer + 1
     ELSE /\ intervals' = (intervals \ {iv}) \cup
               {[iv EXCEPT !.lightCount = iv.lightCount + 1,
                           !.due = t + IntervalPeriod]}
          /\ UNCHANGED <<gameState, timers, nextTimer>>
  /\ UNCHANGED <<reactionTime, jumpStart, results, systemLatency,
                 isCalibrating, refVars, storage, storageFull, rafQueue,
                 nextRaf, closureVars, calVars, best>>

\* the lights-out timeout callback of the variant, run at clock reading t
IntervalLightsOut(tm, t) ==
  /\ UNCHANGED frameStamp
  /\ tm \in timers
  /\ t >= now
  /\ t >= tm.due
  /\ now' = t
  /\ timers' = timers \ {tm}
  /\ activeLights' = 0
  /\ lightsOutTimeRef' = t
  /\ gameState' = "reacting"
  /\ UNCHANGED <<reactionTime, jumpStart, results, systemLatency,
                 isCalibrating, rafRef, timeoutRef, lightsStartRef,
                 runningRef, bestRef, storage, storageFull, rafQueue, nextRaf,
                 nextTimer, closureVars, calVars, variantVars>>

\* handleReaction of the variant, called by a listener that captured
\* countdown, waiting or reacting
IntervalHandleReaction(t) ==
  /\ runningRef' = FALSE
  /\ gameState' = "result"
  /\ IF handler.gameState \in {"countdown", "waiting"}
     THEN /\ jumpStart' = TRUE
          /\ activeLights' = 0
          /\ results' = RecordedResults(results, Attempt(Null, TRUE, t))
          /\ UNCHANGED reactionTime
     ELSE /\ reactionTime' =
               Some(Calibrated(t - lightsOutTimeRef, handler.systemLatency))
          /\ results' = RecordedResults(results,
               Attempt(reactionTime', FALSE, t))
          /\ UNCHANGED <<jumpStart, activeLights>>
  /\ UNCHANGED <<systemLatency, isCalibrating, lightsOutTimeRef, intervals,
                 nextTimer>>

\* the keydown (space) and click listeners bound by the input effect; the
\* model follows the inputs of the first MaxAttempts recorded rounds
handleClick(t) ==
  /\ UNCHANGED frameStamp
  /\ Len(results) < MaxAttempts
  /\ t >= now
  /\ now' = t
  /\ IF handler.gameState \in {"idle", "result"}
     THEN IntervalStartGame(t)
     ELSE IntervalHandleReaction(t)
  /\ UNCHANGED <<rafRef, timeoutRef, lightsStartRef, bestRef, storage,
                 storageFull, rafQueue, timers, nextRaf, closureVars, calVars,
                 best>>

\* click on the Try Again button of the result panel, which is rendered
\* only once the calibrating screen is gone
IntervalTryAgain(t) ==
  /\ UNCHANGED frameStamp
  /\ Len(results) < MaxAttempts
  /\ view.gameState = "result"
  /\ ~view.isCalibrating
  /\ t >= now
  /\ now' = t
  /\ IntervalStartGame(t)
  /\ UNCHANGED <<rafRef, timeoutRef, lightsStartRef, bestRef, storage,
                 storageFull, rafQueue, timers, nextRaf, closureVars, calVars,
                 best>>

\* a render followed by its effects: the input effect, whose dependencies
\* are [gameState], rebinds the listeners
IntervalRender ==
  /\ view # ViewSnapshot \/ handler.gameState # gameState
  /\ view' = ViewSnapshot
  /\ handler' = IF handler.gameState # gameState THEN HandlerSnapshot
                ELSE handler
  /\ UNCHANGED <<reactVars, refVars, hostVars, frameLights, calVars,
                 variantVars>>

\* timers run when they are due, or as soon after as the event loop is free
NextInterval ==
  \/ IntervalRender
  \/ \E t \in IntervalInstants : IntervalTryAgain(t)
  \/ \E t \in IntervalInstants : handleClick(t)
  \/ \E iv \in intervals : IntervalTick(iv, Max(now, iv.due))
  \/ \E tm \in timers : IntervalLightsOut(tm, Max(now, tm.due))

SpecInterval == InitInterval /\ [][NextInterval]_vars


\* ------------------------------------------------------------------------
\* Properties
\* ------------------------------------------------------------------------

SignalStep == \E t \in Instants : ReactionSignal(t)
BeginStep == \E t \in Instants : TryAgain(t)

AllowedTransitions ==
  { <<"idle", "countdown">>, <<"countdown", "waiting">>,
    <<"waiting", "reacting">>, <<"countdown", "result">>,
    <<"waiting", "result">>, <<"reacting", "result">>,
    <<"result", "countdown">> }

\* C1: every change of gameState is one of the seven transitions of the
\* state machine, under every interleaving of signals, begin requests,
\* frame ticks and the lights-out timeout.
C1_OnlyListedTransitions ==
  [][gameState' # gameState
       => <<gameState, gameState'>> \in AllowedTransitions]_vars

\* a timed round has ended and the next round has begun
C1_Witness ==
  /\ gameState = "countdown"
  /\ results # <<>>
  /\ ~results[1].jumpStart

\* C2: a reaction signal handled in an active round before its lights-out
\* callback has run (state countdown or waiting) ends the round in result
\* with a jump-start Attempt whose time is null.
C2_EarlySignalIsJumpStart ==
  [][(runningRef /\ gameState \in {"countdown", "waiting"} /\ SignalStep)
       => /\ gameState' = "result"
          /\ Len(results') = Len(results) + 1
          /\ results'[1].jumpStart = TRUE
          /\ results'[1].time = Null
          /\ jumpStart' = TRUE
          /\ reactionTime' = Null]_vars

\* the first round reached waiting (its timeout was scheduled, never run)
\* and was ended by a jump start
C2_Witness ==
  /\ gameState = "result"
  /\ Len(results) = 1
  /\ results[1].jumpStart
  /\ results[1].time = Null
  /\ nextTimer = 2
  /\ lightsOutTimeRef = 0

\* C3: a reaction signal handled after the lights-out callback of the round
\* has run ends the round in result with a timed Attempt, also when the
\* bound handler still holds the gameState of before lights out.
C3_LateSignalIsTimed ==
  [][(runningRef /\ gameState = "reacting" /\ SignalStep)
       => /\ gameState' = "result"
          /\ Len(results') = Len(results) + 1
          /\ results'[1].jumpStart = FALSE
          /\ results'[1].time # Null
          /\ reactionTime' = results'[1].time
          /\ jumpStart' = FALSE]_vars

\* the only attempt is timed and was taken by a handler bound in waiting
C3_Witness ==
  /\ gameState = "result"
  /\ Len(results) = 1
  /\ ~results[1].jumpStart
  /\ results[1].time # Null
  /\ handler.gameState = "waiting"

\* C4: the time of a timed attempt is the integer nearest to raw - L
\* (halves up) when raw >= L, and 0 otherwise; it is never negative.
C4_CalibratedTime ==
  [][(SignalStep /\ Len(results') = Len(results) + 1
        /\ ~results'[1].jumpStart)
       => LET raw == now' - lightsOutTimeRef
              comp == Ms * systemLatency
              ms == results'[1].time[1]
          IN /\ ms >= 0
             /\ raw >= comp
                  => (2 * Ms * ms - Ms <= 2 * (raw - comp)
                        /\ 2 * (raw - comp) < 2 * Ms * ms + Ms)
             /\ raw < comp => ms = 0]_vars

\* compensation 8, signal 205.25 ms after lights out, recorded as 197
C4_Witness ==
  /\ gameState = "result"
  /\ systemLatency = 8
  /\ lightsOutTimeRef = 5100 * Ms
  /\ now = 5100 * Ms + 1642
  /\ reactionTime = Some(197)
  /\ results[1].time = Some(197)

\* C5: once the round has ended nothing of it is pending, and while the
\* state stays result neither activeLights nor lightsOutTime changes; a
\* round begins with no callback of an earlier round pending.
C5_NoLateCallback ==
  /\ []((gameState = "result" \/ ~runningRef)
          => (rafQueue = {} /\ timers = {}))
  /\ [][(gameState = "result" /\ gameState' = "result")
          => (activeLights' = activeLights
                /\ lightsOutTimeRef' = lightsOutTimeRef)]_vars
  /\ [][(~runningRef /\ runningRef')
          => (rafQueue' = {rafRef'[1]} /\ timers' = {})]_vars

\* a jump start during countdown cancelled the pending frame callback
C5_Witness ==
  /\ gameState = "result"
  /\ jumpStart
  /\ nextRaf > 1
  /\ nextTimer = 1
  /\ rafQueue = {}

\* C6: begin while a round is active changes nothing, and at most one
\* frame callback or lights-out timeout is pending at any time.
C6_BeginWhileActiveIsNoOp ==
  /\ [][(runningRef /\ BeginStep)
          => UNCHANGED <<gameState, activeLights, lightsOutTimeRef,
                         reactionTime, jumpStart, results, rafQueue,
                         timers, lightsStartRef>>]_vars
  /\ [](Cardinality(rafQueue) + Cardinality(timers) <= 1)

\* the round is in countdown with no frame run yet, the clock was read
\* after it began, and the page still shows the Try Again button
C6_Witness ==
  /\ gameState = "countdown"
  /\ runningRef
  /\ view.gameState = "result"
  /\ activeLights = 0
  /\ now > lightsStartRef
  /\ Cardinality(rafQueue) = 1

\* C7: a reaction signal handled while gameState is idle or result and no
\* round is active starts a round and records nothing: history and best
\* score are unchanged.
C7_SignalWhenIdleStartsRound ==
  [][(~runningRef /\ gameState \in {"idle", "result"} /\ SignalStep)
       => /\ gameState' = "countdown"
          /\ results' = results
          /\ bestRef' = bestRef]_vars

\* C8: an Attempt is appended only by the signal that ends an active
\* round, so each completed round appends exactly one; entries already in
\* the history are never modified.
C8_OneAttemptPerRound ==
  [][results' # results
       => /\ runningRef
          /\ ~runningRef'
          /\ Len(results') = Len(results) + 1
          /\ \A i \in 1..Len(results) : results'[i + 1] = results[i]]_vars

\* C9: the history holds at most 10 entries, newest first; a record
\* prepends, keeps the order of the others and, when the history was full,
\* drops exactly the oldest (after 11 records the first is absent).
C9_BoundedNewestFirst ==
  /\ [](/\ Len(results) <= 10
        /\ \A i, j \in 1..Len(results) :
             i < j => results[i].timestamp > results[j].timestamp
        /\ RecordsSoFar >= 11
             => \A i \in 1..Len(results) : results[i].timestamp # 1)
  /\ [][results' # results
          => /\ Len(results') = Min(10, Len(results) + 1)
             /\ results'[1].timestamp = RecordsSoFar + 1
             /\ \A i \in 2..Len(results') : results'[i] = results[i - 1]]_vars

\* eleven attempts were recorded and ten are kept
C9_Witness ==
  /\ Len(results) = 10
  /\ results[1].timestamp = 11
  /\ results[10].timestamp = 2

\* C10: recording an attempt never increases the in-memory best score.
C10_BestNeverIncreases ==
  [][~Less(bestRef, bestRef')]_vars

\* C11: recording a jump-start Attempt (a signal handled before lights
\* out) leaves the in-memory best and the persisted "best" unchanged.
C11_JumpStartKeepsBest ==
  [][(SignalStep /\ Len(results') = Len(results) + 1
        /\ (results'[1].jumpStart \/ lightsOutTimeRef = 0))
       => (bestRef' = bestRef /\ storage' = storage)]_vars

\* a timed attempt set the best and a later jump start left it in place
C11_Witness ==
  /\ Len(results) = 2
  /\ results[1].jumpStart
  /\ ~results[2].jumpStart
  /\ results[2].time # Some(0)
  /\ bestRef = Num(results[2].time[1])
  /\ storage = Some(StringOf(results[2].time[1]))

\* C12: a timed Attempt of time t updates the best and the persisted value
\* if and only if the best is unset or t < best; otherwise neither changes;
\* after an update both equal t.
C12_BestUpdatedIffImproved ==
  [][(SignalStep /\ Len(results') = Len(results) + 1
        /\ ~results'[1].jumpStart)
       => LET ms == results'[1].time[1]
              improves == bestRef.k # "num" \/ ms < bestRef.v
          IN IF improves
             THEN /\ bestRef' = Num(ms)
                  /\ storage' # Null
                  /\ NumberOf(storage'[1]) = Num(ms)
             ELSE bestRef' = bestRef /\ storage' = storage]_vars

\* C13: in every history entry time is null exactly when jumpStart is true,
\* and the time of a timed entry is a non-negative integer.
C13_AttemptShape ==
  \A i \in 1..Len(results) :
    /\ (results[i].time = Null) <=> results[i].jumpStart
    /\ ~results[i].jumpStart
         => (Len(results[i].time) = 1 /\ results[i].time[1] \in Nat)

\* the history holds a jump start and a timed attempt clamped to 0
C13_Witness ==
  /\ Len(results) = 2
  /\ results[1].jumpStart
  /\ results[2].time = Some(0)
  /\ ~results[2].jumpStart

\* C14: activeLights never decreases while the state is countdown, and it
\* is 0 after the step in which the lights-out callback sets reacting.
C14_ProgressMonotone ==
  /\ [][(gameState = "countdown" /\ gameState' \in {"countdown", "waiting"})
          => activeLights' >= activeLights]_vars
  /\ [][(gameState # "reacting" /\ gameState' = "reacting")
          => (activeLights = 5 /\ activeLights' = 0
                /\ lightsOutTimeRef = 0 /\ lightsOutTimeRef' # 0)]_vars

\* lights out after a countdown of at least three frames
C14_Witness ==
  /\ gameState = "reacting"
  /\ activeLights = 0
  /\ lightsOutTimeRef # 0
  /\ Len(results) = 0
  /\ nextRaf > 3

\* C15: progress is less than k before t0 + k * 1000 ms, so k lights are
\* lit no earlier than k seconds after begin, and waiting is not entered
\* before t0 + 5000 ms.
C15_ProgressAtBoundaries ==
  (runningRef /\ gameState \in {"countdown", "waiting"})
    => /\ now - lightsStartRef >= 1000 * Ms * activeLights
       /\ gameState = "waiting" => now - lightsStartRef >= 5000 * Ms

\* C16: the lights-out callback runs only from waiting, leaves no timeout
\* and no frame callback of the round behind, so it cannot run a second
\* time in the round; once progress has reached 5 (waiting, reacting) no
\* frame callback is pending; a timed attempt follows exactly one lights out.
C16_LightsOutOnce ==
  /\ [][lightsOutTimeRef' \notin {lightsOutTimeRef, 0}
          => (gameState = "waiting" /\ gameState' = "reacting"
                /\ timers' = {} /\ rafQueue' = {})]_vars
  /\ [](gameState \in {"waiting", "reacting"} => rafQueue = {})
  /\ [](gameState = "waiting" => Cardinality(timers) = 1)
  /\ [](gameState = "reacting" => (timers = {} /\ lightsOutTimeRef # 0))
  /\ [][(Len(results') = Len(results) + 1 /\ ~results'[1].jumpStart)
          => lightsOutTimeRef # 0]_vars

\* a timed round has ended: fifth light, one timeout, lights out, reaction
C16_Witness ==
  /\ gameState = "result"
  /\ Len(results) = 1
  /\ ~results[1].jumpStart
  /\ nextTimer = 2
  /\ lightsOutTimeRef # 0
  /\ timers = {}

\* the samples strictly below, and not above, a value
SamplesBelow(m) == Cardinality({i \in 1..Len(samples) : samples[i] < m})
SamplesUpTo(m) == Cardinality({i \in 1..Len(samples) : samples[i] <= m})

\* m is the k-th smallest of the samples
IsKthSmallest(m, k) ==
  /\ \E i \in 1..Len(samples) : samples[i] = m
  /\ SamplesBelow(m) < k
  /\ SamplesUpTo(m) >= k

\* C17 as stated: once calibration has ended the compensation is >= 0 and
\* equals the median of the samples (lower middle, upper middle or any
\* value between them), nothing added.
C17_CompensationIsMedian ==
  ~isCalibrating
    => /\ systemLatency >= 0
       /\ \E lo, hi \in {samples[i] : i \in 1..Len(samples)} :
            /\ IsKthSmallest(lo, Len(samples) \div 2)
            /\ IsKthSmallest(hi, (Len(samples) \div 2) + 1)
            /\ lo <= Ms * systemLatency
            /\ Ms * systemLatency <= hi

\* C17 amended: the compensation is >= 0 and is the median sample (the
\* element at index floor(N / 2) of the sorted samples) rounded to the
\* nearest integer millisecond, nothing added.
C17_CompensationIsRoundedMedian ==
  ~isCalibrating
    => /\ systemLatency >= 0
       /\ Len(samples) = 12
       /\ \E m \in {samples[i] : i \in 1..Len(samples)} :
            /\ IsKthSmallest(m, (Len(samples) \div 2) + 1)
            /\ 2 * Ms * systemLatency - Ms <= 2 * m
            /\ 2 * m < 2 * Ms * systemLatency + Ms

\* calibration ended on a median that is not a whole millisecond
C17_Witness ==
  /\ ~isCalibrating
  /\ Len(samples) = 12
  /\ samples[7] % Ms # 0
  /\ systemLatency >= 1
  /\ sampleT0 = Null

\* C18: while isCalibrating is true no round starts and no Attempt is
\* recorded: gameState stays idle.
C18_BlockedWhileCalibrating ==
  isCalibrating
    => (gameState = "idle" /\ ~runningRef /\ results = <<>>
          /\ rafQueue = {})

\* C19: calibration ends even if the host never runs a sample callback.
C19_CalibrationEnds == <>(~isCalibrating)

\* the timed entries of the history, by position
TimedEntries == {i \in 1..Len(results) : ~results[i].jumpStart}

RECURSIVE TimeTotal(_)
\* the sum of the times of the entries at the positions in S
TimeTotal(S) ==
  IF S = {} THEN 0
  ELSE LET i == CHOOSE j \in S : TRUE
       IN results[i].time[1] + TimeTotal(S \ {i})

\* C20 as stated: the displayed average is the arithmetic mean of the
\* timed entries now in the history, and is absent when there is none.
C20_AverageIsMean ==
  IF TimedEntries = {}
  THEN AverageShown(results) = Null
  ELSE /\ AverageShown(results) # Null
       /\ AverageShown(results)[1] * Cardinality(TimedEntries)
            = TimeTotal(TimedEntries)

\* C20 amended: the displayed average is the arithmetic mean of the timed
\* entries now in the history rounded to the nearest integer (halves up);
\* it is absent when there is no timed entry or when that rounded mean is 0.
C20_AverageIsRoundedMean ==
  IF TimedEntries = {}
  THEN AverageShown(results) = Null
  ELSE LET n == Cardinality(TimedEntries)
           total == TimeTotal(TimedEntries)
       IN \E avg \in {total \div n, (total \div n) + 1} :
            /\ 2 * n * avg - n <= 2 * total
            /\ 2 * total < 2 * n * avg + n
            /\ AverageShown(results) = IF avg = 0 THEN Null ELSE Some(avg)

\* eleven records, one dropped; four timed entries of 150, 0, 0, 0 ms among
\* jump starts show 38 for a mean of 37.5
C20_Witness ==
  /\ RecordsSoFar = 11
  /\ Len(results) = 10
  /\ Cardinality(TimedEntries) = 4
  /\ TimeTotal(TimedEntries) = 150
  /\ AverageShown(results) = Some(38)

\* the item found in storage at mount is missing or is no number
NoValidBest(item) == item = Null \/ NumberOf(item[1]) = NaN

\* C21: when the persisted best found at startup is missing or is not a
\* number, the first timed Attempt recorded becomes the in-memory best and
\* is persisted; until then storage is as found and the best is unset.
C21_InvalidBestIsNoBest ==
  /\ [][(TimedEntries = {} /\ NoValidBest(storage)
          /\ results' # results /\ ~results'[1].jumpStart)
          => /\ bestRef' = Num(results'[1].time[1])
             /\ storage' = Some(StringOf(results'[1].time[1]))]_vars
  /\ [][(TimedEntries = {} /\ NoValidBest(storage)
          /\ results' # results /\ results'[1].jumpStart)
          => (bestRef' = bestRef /\ storage' = storage
                /\ bestRef \in {Infinity, NaN})]_vars

\* a jump start and then a first timed attempt of 150 ms, which is the
\* best and the stored text: the text found at mount was not the number 100
C21_Witness ==
  /\ RecordsSoFar = 2
  /\ results[2].jumpStart
  /\ results[1].time = Some(150)
  /\ bestRef = Num(150)
  /\ storage = Some(<<"1", "5", "0">>)

\* C22: when the write of the best fails while a timed Attempt is recorded,
\* the round still completes: gameState is result, the Attempt heads the
\* history, reactionTime is its time, the round-active flag is cleared and
\* the in-memory best is the new value; storage keeps what it held.
C22_WriteFailureKeepsRound ==
  [][(storageFull /\ SignalStep /\ Len(results') = Len(results) + 1
        /\ ~results'[1].jumpStart /\ BestImproves(bestRef, results'[1]))
       => /\ gameState' = "result"
          /\ results'[1].time # Null
          /\ reactionTime' = results'[1].time
          /\ ~runningRef'
          /\ rafQueue' = {} /\ timers' = {}
          /\ bestRef' = Num(results'[1].time[1])
          /\ storage' = storage]_vars

\* a timed attempt of 197 ms was recorded while storage refused the write:
\* the best in memory is 197 and storage has no item
C22_Witness ==
  /\ storageFull
  /\ gameState = "result"
  /\ ~runningRef
  /\ results # <<>>
  /\ results[1].time = Some(197)
  /\ reactionTime = Some(197)
  /\ bestRef = Num(197)
  /\ storage = Null

\* the samples at the positions other than i
OtherSamples(i) == {samples[j] : j \in (1..Len(samples)) \ {i}}

\* C23: whichever single sample is set aside as the outlier, however large
\* it is, the compensation lies within 1 ms of the range spanned by the
\* other samples.
C23_OutlierDoesNotSkew ==
  ~isCalibrating
    => \A i \in 1..Len(samples) :
         /\ \E lo \in OtherSamples(i) : lo - Ms <= Ms * systemLatency
         /\ \E hi \in OtherSamples(i) : Ms * systemLatency <= hi + Ms

\* calibration ended with one sample of at least 30 ms while the eleven
\* others are at most 3 ms, and the compensation is at most 3 ms
C23_Witness ==
  /\ ~isCalibrating
  /\ Len(samples) = 12
  /\ samples[12] >= 30 * Ms
  /\ samples[11] <= 3 * Ms
  /\ samples[1] < samples[11]
  /\ systemLatency \in 1..3

FrameStep == \E t \in Instants : \E id \in rafQueue : FrameTick(id, t)

\* C24: each frame tick leaves progress at k = min(5, floor((now - t0) /
\* 1000) + 1), computed from its own timestamp and the anchor of the round:
\* k is at most 5, elapsed time is within [(k - 1) s, k s) when k < 5 (k is
\* 0 for a frame stamped before the anchor) and at least 4 s when k = 5,
\* however many ticks ran before.
C24_ProgressFromElapsed ==
  [][FrameStep
       => LET elapsed == frameStamp' - lightsStartRef
              k == activeLights'
          IN /\ k \in 0..5
             /\ k < 5 => (1000 * Ms * (k - 1) <= elapsed
                         /\ elapsed < 1000 * Ms * k)
             /\ k = 5 => elapsed >= 4000 * Ms
             /\ lightsStartRef' = lightsStartRef]_vars

\* the only tick of the round ran more than 4 s after begin and wrote 5,
\* skipping 1 to 4
C24_Witness ==
  /\ gameState = "waiting"
  /\ activeLights = 5
  /\ nextRaf = 2
  /\ results = <<>>
  /\ now - lightsStartRef >= 4000 * Ms

\* C25: the lights-out timeout is scheduled d after the tick that enters
\* waiting, with 1000 ms <= d < 5000 ms.
C25_DelayWithinBounds ==
  [][(gameState # "waiting" /\ gameState' = "waiting")
       => \A tm \in timers' :
            (1000 * Ms <= tm.due - now' /\ tm.due - now' < 5000 * Ms)]_vars

\* C26: whenever a frame callback or a lights-out timeout is pending, the
\* round-active flag is true.
C26_PendingImpliesActive ==
  (rafQueue # {} \/ timers # {}) => runningRef

\* the second round waits for lights out with its timeout pending; the
\* first was stopped by a jump start
C26_Witness ==
  /\ gameState = "waiting"
  /\ runningRef
  /\ Cardinality(timers) = 1
  /\ Len(results) = 1
  /\ results[1].jumpStart

\* C27: for the even number of samples taken, the compensation comes from
\* the lower-middle element of the sorted samples (element N / 2 counting
\* from 1), rounded.
C27_LowerMiddleMedian ==
  ~isCalibrating
    => \E m \in {samples[i] : i \in 1..Len(samples)} :
         /\ IsKthSmallest(m, Len(samples) \div 2)
         /\ 2 * Ms * systemLatency - Ms <= 2 * m
         /\ 2 * m < 2 * Ms * systemLatency + Ms

\* C28: on a host that runs every calibration timeout, calibration ends;
\* it ends with 12 samples (at least 10) and no timeout pending, the
\* compensation is written at the step that ends it and at no other, and
\* neither the compensation nor isCalibrating changes afterwards.
C28_CalibratesOnce ==
  /\ <>(~isCalibrating)
  /\ [](isCalibrating => systemLatency = 0)
  /\ [](~isCalibrating
          => (Len(samples) = 12 /\ Len(samples) >= 10 /\ sampleT0 = Null))
  /\ [][(isCalibrating /\ ~isCalibrating')
          => (Len(samples) = 11
                /\ systemLatency' = Max(0, MathRound(samples'[7])))]_vars
  /\ [][~isCalibrating
          => (~isCalibrating' /\ systemLatency' = systemLatency
                /\ samples' = samples)]_vars

\* calibration has ended with a compensation of 2 ms, and the page was
\* rendered with it afterwards
C28_Witness ==
  /\ ~isCalibrating
  /\ Len(samples) = 12
  /\ systemLatency = 2
  /\ sampleT0 = Null
  /\ ~view.isCalibrating
  /\ handler.systemLatency = 2

\* C29: once the state is reacting it stays reacting, with the same
\* lights-out time armed, through every step that is not a reaction signal;
\* in reacting no timeout and no frame callback is pending.
C29_ReactingUntilSignal ==
  /\ [][(gameState = "reacting" /\ ~SignalStep)
          => (gameState' = "reacting"
                /\ lightsOutTimeRef' = lightsOutTimeRef
                /\ runningRef' /\ results' = results)]_vars
  /\ [][(gameState = "reacting" /\ gameState' # "reacting") => SignalStep]_vars
  /\ [](gameState = "reacting"
          => (timers = {} /\ rafQueue = {} /\ lightsOutTimeRef # 0
                /\ runningRef))

\* in reacting the page was rendered and a click on a Try Again button still
\* on screen was handled after lights out: the state is still reacting
C29_Witness ==
  /\ gameState = "reacting"
  /\ now > lightsOutTimeRef
  /\ lightsOutTimeRef # 0
  /\ runningRef
  /\ Len(results) = 1

\* C30: activeLights is an integer in 0..5; it is 0 in idle, reacting and
\* result and 5 in waiting, and it is 0 after the step that begins a round.
C30_LightsCoupledToState ==
  /\ [](activeLights \in 0..5)
  /\ [](gameState \in {"idle", "reacting", "result"} => activeLights = 0)
  /\ [](gameState = "waiting" => activeLights = 5)
  /\ [][(~runningRef /\ runningRef')
          => (activeLights' = 0 /\ gameState' = "countdown")]_vars

\* the second round waits with five lights after a first round that lit
\* them and was timed
C30_Witness ==
  /\ gameState = "waiting"
  /\ activeLights = 5
  /\ Len(results) = 1
  /\ ~results[1].jumpStart
  /\ nextTimer = 3

\* C31: the step that begins a round, from result as from idle and after
\* a timed round as after a jump start, yields countdown with activeLights
\* 0, reactionTime null, the jump-start flag false and lights-out unarmed,
\* and leaves the history, the best score, its stored text and the
\* compensation unchanged.
C31_BeginFromResult ==
  [][(~runningRef /\ runningRef')
       => /\ gameState \in {"idle", "result"}
          /\ gameState' = "countdown"
          /\ activeLights' = 0
          /\ reactionTime' = Null
          /\ jumpStart' = FALSE
          /\ lightsOutTimeRef' = 0
          /\ results' = results
          /\ bestRef' = bestRef
          /\ storage' = storage
          /\ systemLatency' = systemLatency]_vars

\* a round was begun from result after a timed round: the page still shows
\* the result panel, the history holds the timed attempt
C31_Witness ==
  /\ gameState = "countdown"
  /\ reactionTime = Null
  /\ lightsOutTimeRef = 0
  /\ Len(results) = 1
  /\ results[1].time = Some(197)
  /\ bestRef = Num(197)
  /\ view.gameState = "result"

\* a begin request: startGame is called by the Try Again button, or by a
\* reaction signal whose handler takes the starting branch
BeginRequest == BeginStep \/ (SignalStep /\ StartsRound)

\* C34: the round-active flag is true exactly in countdown, waiting and
\* reacting and false exactly in idle and result; a begin request made in
\* idle or result is never ignored.
C34_FlagMatchesState ==
  /\ [](runningRef <=> gameState \in {"countdown", "waiting", "reacting"})
  /\ [](~runningRef <=> gameState \in {"idle", "result"})
  /\ [][(BeginRequest /\ gameState \in {"idle", "result"})
          => (gameState' = "countdown" /\ runningRef')]_vars

\* the third round is under way after a jump start and a timed round
C34_Witness ==
  /\ runningRef
  /\ gameState = "countdown"
  /\ Len(results) = 2
  /\ results[2].jumpStart
  /\ ~results[1].jumpStart

\* C35: lights-out is unarmed in every state countdown or waiting, also in
\* a round begun after a timed round, and armed in every state reacting;
\* the lights-out instant that times an attempt lies after the begin of the
\* round it ends.
C35_LightsOutArmedInReacting ==
  /\ [](gameState \in {"countdown", "waiting"} => lightsOutTimeRef = 0)
  /\ [](gameState = "reacting" => lightsOutTimeRef # 0)
  /\ [](lightsOutTimeRef # 0 => lightsOutTimeRef > lightsStartRef)
  /\ [][(Len(results') = Len(results) + 1 /\ ~results'[1].jumpStart)
          => (lightsOutTimeRef > lightsStartRef
                /\ 2 * Ms * results'[1].time[1]
                     <= 2 * (now' - lightsOutTimeRef) + Ms)]_vars

\* the second round waits for lights out, unarmed, after a timed round
C35_Witness ==
  /\ gameState = "waiting"
  /\ lightsOutTimeRef = 0
  /\ Len(results) = 1
  /\ ~results[1].jumpStart
  /\ timers # {}

\* C36: whenever gameState is result, the jump-start flag is that of the
\* newest history entry and reactionTime is its time (null for a jump
\* start).
C36_SnapshotMatchesNewest ==
  gameState = "result"
    => /\ results # <<>>
       /\ jumpStart = results[1].jumpStart
       /\ reactionTime = results[1].time

\* a timed round ended after a round that was a jump start
C36_Witness ==
  /\ gameState = "result"
  /\ Len(results) = 2
  /\ results[2].jumpStart
  /\ ~results[1].jumpStart
  /\ ~jumpStart
  /\ reactionTime = results[1].time

\* C37: on a host that runs every frame callback and timeout, a round in
\* countdown reaches waiting and a round in waiting reaches reacting unless
\* a reaction signal ends it in result first; a reaction signal handled in
\* reacting leads to result.
C37_RoundProgresses ==
  /\ (gameState = "countdown") ~> (gameState \in {"waiting", "result"})
  /\ (gameState = "waiting") ~> (gameState \in {"reacting", "result"})
  /\ [][(gameState = "reacting" /\ RoundSignal)
          => (gameState' = "result" /\ ~results'[1].jumpStart)]_vars

\* the third round, begun after two attempts, was left alone and reached
\* reacting through at least two frames
C37_Witness ==
  /\ gameState = "reacting"
  /\ Len(results) = 2
  /\ nextTimer = 3
  /\ nextRaf > 4
  /\ lightsOutTimeRef >= lightsStartRef + 5000 * Ms

\* C32: in the frame-driven variant with a best score, once the round has
\* ended in result no frame tick and no lights-out timeout of it is pending,
\* so that none can change gameState, activeLights or lightsOutTime.
C32_VariantCancelsCallbacks ==
  /\ [](gameState = "result" => (rafQueue = {} /\ timers = {}))
  /\ [][gameState = "result"
          => /\ gameState' \in {"result", "countdown"}
             /\ gameState' = "result"
                  => (activeLights' = activeLights
                        /\ lightsOutTimeRef' = lightsOutTimeRef)]_vars

\* C33: in the interval-timer variant, a reaction signal or the start of a new
\* round cancels every interval and timeout of the previous round: once the
\* round is over none is pending, so none fires into a later round, and at
\* most one interval is active at any time.
C33_IntervalVariantCancels ==
  /\ ~runningRef => (intervals = {} /\ timers = {})
  /\ Cardinality(intervals) <= 1

====
